---- MODULE Spec2Model ----
(***************************************************************************)
(* Model of the two dialog-generation translation units of helgobox:       *)
(*   main/src/infrastructure/ui/dialogs.cpp                                *)
(*   src/infrastructure/common/dialogs.cpp                                 *)
(* Each unit is a list of preprocessor directives.  The model is the C     *)
(* preprocessor walking over that list on a given platform: it keeps the   *)
(* macro table, the conditional-inclusion stack, a log of every #define    *)
(* it performed and a log of every #include together with the macro table  *)
(* in effect at that point.  The generated .rc_mac_dlg file is not part of *)
(* the sources; its control lines are inputs, expanded with the macro      *)
(* table in effect at its inclusion.  The contents of the SWELL headers    *)
(* are not part of the sources either: an inclusion of one of them is      *)
(* logged and leaves the unit's own macros alone.                          *)
(***************************************************************************)
EXTENDS Integers, Sequences, FiniteSets, TLC

\* ------------------------------------------------------------------ bounds

\* Number of control lines of the generated file that are processed.
MaxControls == 2
\* Control styles of the generated file range over 0..MaxStyle.
MaxStyle == 2
\* Number of dialog templates held by the generated file.
NumTemplates == 2

\* ------------------------------------------------------- names of the units

MainUnit == "main/src/infrastructure/ui/dialogs.cpp"
CommonUnit == "src/infrastructure/common/dialogs.cpp"
Units == {MainUnit, CommonUnit}

\* The units are built on Mac OS X and on Linux; only the former predefines
\* __APPLE__.
Platforms == {"macos", "linux"}

\* ------------------------------------------------------- included files

MainResourceH == "../../../../target/generated/resource.h"
CommonResourceH == "resource.h"
SwellH == "../../../lib/WDL/WDL/swell/swell.h"
SwellDlgGenH == "../../../lib/WDL/WDL/swell/swell-dlggen.h"
MainGenerated == "../../../../target/generated/msvc.rc_mac_dlg"
CommonGenerated == "realearn.rc_mac_dlg"
GeneratedFiles == {MainGenerated, CommonGenerated}

\* ------------------------------------------------------- directives

Def(name, body, line) == [kind |-> "define", name |-> name, body |-> body, line |-> line]
Inc(file, line) == [kind |-> "include", name |-> file, body |-> "", line |-> line]
IfDef(name, line) == [kind |-> "ifdef", name |-> name, body |-> "", line |-> line]
Else(line) == [kind |-> "else", name |-> "", body |-> "", line |-> line]
EndIf(line) == [kind |-> "endif", name |-> "", body |-> "", line |-> line]

\* Mutant of CommonPrologue: SWELL_PROVIDED_BY_APP is defined only after
\* swell.h has been included.
CommonPrologueDefineLate ==
  << Inc(CommonResourceH, 9),
     Inc(SwellH, 10),
     Def("SWELL_PROVIDED_BY_APP", "", 6),
     Inc(SwellDlgGenH, 11) >>

\* main/src/infrastructure/ui/dialogs.cpp, lines 6-10
MainPrologue ==
  << Def("SWELL_PROVIDED_BY_APP", "", 6),
     Inc(MainResourceH, 9),
     Inc(SwellH, 10) >>

\* Mutant of MainScaleBlock: the factors of the two branches are exchanged.
MainScaleBlockSwapped ==
  << IfDef("__APPLE__", 13),
     Def("SWELL_DLG_SCALE_AUTOGEN", "1.9", 14),
     Def("SWELL_DLG_SCALE_AUTOGEN_YADJ", "0.92", 15),
     Else(16),
     Def("SWELL_DLG_SCALE_AUTOGEN", "1.6", 17),
     Def("SWELL_DLG_SCALE_AUTOGEN_YADJ", "0.95", 18),
     EndIf(19) >>

\* Mutant of MainScaleBlock: the #else line is missing.
MainScaleBlockNoElse ==
  << IfDef("__APPLE__", 13),
     Def("SWELL_DLG_SCALE_AUTOGEN", "1.6", 14),
     Def("SWELL_DLG_SCALE_AUTOGEN_YADJ", "0.95", 15),
     Def("SWELL_DLG_SCALE_AUTOGEN", "1.9", 17),
     Def("SWELL_DLG_SCALE_AUTOGEN_YADJ", "0.92", 18),
     EndIf(19) >>

\* main/src/infrastructure/ui/dialogs.cpp, lines 13-19
MainScaleBlock ==
  << IfDef("__APPLE__", 13),
     Def("SWELL_DLG_SCALE_AUTOGEN", "1.6", 14),
     Def("SWELL_DLG_SCALE_AUTOGEN_YADJ", "0.95", 15),
     Else(16),
     Def("SWELL_DLG_SCALE_AUTOGEN", "1.9", 17),
     Def("SWELL_DLG_SCALE_AUTOGEN_YADJ", "0.92", 18),
     EndIf(19) >>

\* Mutant of MainEpilogue: a macro is defined after the generated file.
MainEpilogueDefineAfterGenerated ==
  << Inc(SwellDlgGenH, 20),
     Def("CBS_HASSTRINGS", "0", 21),
     Def("WS_EX_LEFT", "", 22),
     Def("WC_COMBOBOX", "\"ComboBox\"", 23),
     Inc(MainGenerated, 27),
     Def("SS_WORDELLIPSIS", "0", 24) >>

\* main/src/infrastructure/ui/dialogs.cpp, lines 20-27
MainEpilogue ==
  << Inc(SwellDlgGenH, 20),
     Def("CBS_HASSTRINGS", "0", 21),
     Def("WS_EX_LEFT", "", 22),
     Def("WC_COMBOBOX", "\"ComboBox\"", 23),
     Def("SS_WORDELLIPSIS", "0", 24),
     Inc(MainGenerated, 27) >>

\* Mutant of MainDirectives: the scale factors are defined after swell-dlggen.h.
MainDirectivesScaleAfterDlgGen ==
  MainPrologue \o << Inc(SwellDlgGenH, 20) >> \o MainScaleBlock \o Tail(MainEpilogue)

MainDirectives == MainPrologue \o MainScaleBlock \o MainEpilogue

\* src/infrastructure/common/dialogs.cpp, lines 6-11
CommonPrologue ==
  << Def("SWELL_PROVIDED_BY_APP", "", 6),
     Inc(CommonResourceH, 9),
     Inc(SwellH, 10),
     Inc(SwellDlgGenH, 11) >>

\* Mutant of CommonEpilogue: the renaming is written the wrong way round.
CommonEpilogueCheckboxReversed ==
  << Def("CHECKBOX", "AUTOCHECKBOX", 12),
     Def("TRACKBAR_CLASS", "\"msctls_trackbar32\"", 13),
     Def("CBS_HASSTRINGS", "0", 14),
     Def("WS_EX_LEFT", "0", 15),
     Def("SS_WORDELLIPSIS", "0", 16),
     Def("SWELL_DLG_SCALE_AUTOGEN", "1.7", 17),
     Inc(CommonGenerated, 20) >>

\* src/infrastructure/common/dialogs.cpp, lines 12-20
CommonEpilogue ==
  << Def("AUTOCHECKBOX", "CHECKBOX", 12),
     Def("TRACKBAR_CLASS", "\"msctls_trackbar32\"", 13),
     Def("CBS_HASSTRINGS", "0", 14),
     Def("WS_EX_LEFT", "0", 15),
     Def("SS_WORDELLIPSIS", "0", 16),
     Def("SWELL_DLG_SCALE_AUTOGEN", "1.7", 17),
     Inc(CommonGenerated, 20) >>

CommonDirectives == CommonPrologue \o CommonEpilogue

Directives(u) == IF u = MainUnit THEN MainDirectives ELSE CommonDirectives

\* ------------------------------------------------------- state

VARIABLES
  unit,       \* the translation unit being preprocessed
  platform,   \* the platform it is built on
  pc,         \* index of the next directive of the unit
  macros,     \* macro table: a function from the defined names to their bodies
  condStack,  \* open #ifdef groups, innermost last
  branchLog,  \* lines of the conditional groups whose text was taken
  defLog,     \* every #define performed, in order
  includes,   \* every #include performed, with the macro table at that point
  controls,   \* the control lines of the generated file, after macro expansion
  phase,      \* "preprocess", "generated", "compile_error", "load", "run"
  registered, \* per dialog template: how often it has been registered
  created     \* templates from which a dialog currently exists

vars == << unit, platform, pc, macros, condStack, branchLog, defLog, includes,
           controls, phase, registered, created >>

Templates == 1..NumTemplates

NoMacros == [n \in {} |-> ""]

\* The macros the compiler predefines for the platform.
Predefined(p) == IF p = "macos" THEN ("__APPLE__" :> "1") ELSE NoMacros

IsDefined(m, name) == name \in DOMAIN m

Init ==
  /\ unit \in Units
  /\ platform \in Platforms
  /\ pc = 1
  /\ macros = Predefined(platform)
  /\ condStack = << >>
  /\ branchLog = << >>
  /\ defLog = << >>
  /\ includes = << >>
  /\ controls = << >>
  /\ phase = "preprocess"
  /\ registered = [t \in Templates |-> 0]
  /\ created = {}

\* ------------------------------------------------------- the preprocessor

AtDirective == phase = "preprocess" /\ pc <= Len(Directives(unit))
Cur == Directives(unit)[pc]

\* Text is taken only when every open conditional group is active.
Active == \A i \in 1..Len(condStack) : condStack[i].active

\* #define NAME BODY
Define ==
  /\ AtDirective /\ Cur.kind = "define" /\ Active
  /\ macros' = (Cur.name :> Cur.body) @@ macros
  /\ defLog' = Append(defLog, [name |-> Cur.name, body |-> Cur.body, line |-> Cur.line])
  /\ pc' = pc + 1
  /\ UNCHANGED << unit, platform, condStack, branchLog, includes, controls, phase,
                  registered, created >>

\* A #define or #include inside a group that is not taken.
Skip ==
  /\ AtDirective /\ Cur.kind \in {"define", "include"} /\ ~Active
  /\ pc' = pc + 1
  /\ UNCHANGED << unit, platform, macros, condStack, branchLog, defLog, includes,
                  controls, phase, registered, created >>

\* #ifdef NAME
Ifdef ==
  /\ AtDirective /\ Cur.kind = "ifdef"
  /\ LET cond == IsDefined(macros, Cur.name)
     IN /\ condStack' = Append(condStack, [active |-> cond, taken |-> cond])
        /\ branchLog' = IF Active /\ cond THEN Append(branchLog, Cur.line) ELSE branchLog
  /\ pc' = pc + 1
  /\ UNCHANGED << unit, platform, macros, defLog, includes, controls, phase,
                  registered, created >>

\* #else
ElseBranch ==
  /\ AtDirective /\ Cur.kind = "else" /\ Len(condStack) > 0
  /\ LET n == Len(condStack)
         top == condStack[n]
         outer == \A i \in 1..(n - 1) : condStack[i].active
     IN /\ condStack' = [condStack EXCEPT ![n] = [active |-> ~top.taken, taken |-> TRUE]]
        /\ branchLog' = IF outer /\ ~top.taken THEN Append(branchLog, Cur.line) ELSE branchLog
  /\ pc' = pc + 1
  /\ UNCHANGED << unit, platform, macros, defLog, includes, controls, phase,
                  registered, created >>

\* #endif
Endif ==
  /\ AtDirective /\ Cur.kind = "endif" /\ Len(condStack) > 0
  /\ condStack' = SubSeq(condStack, 1, Len(condStack) - 1)
  /\ pc' = pc + 1
  /\ UNCHANGED << unit, platform, macros, branchLog, defLog, includes, controls,
                  phase, registered, created >>

IncludeRecord == [file |-> Cur.name, line |-> Cur.line, index |-> pc, at |-> macros]

\* #include of resource.h or of a SWELL header
IncludeHeader ==
  /\ AtDirective /\ Cur.kind = "include" /\ Active
  /\ Cur.name \notin GeneratedFiles
  /\ includes' = Append(includes, IncludeRecord)
  /\ pc' = pc + 1
  /\ UNCHANGED << unit, platform, macros, condStack, branchLog, defLog, controls,
                  phase, registered, created >>

\* #include of the generated .rc_mac_dlg file: its text is processed next
IncludeGenerated ==
  /\ AtDirective /\ Cur.kind = "include" /\ Active
  /\ Cur.name \in GeneratedFiles
  /\ includes' = Append(includes, IncludeRecord)
  /\ pc' = pc + 1
  /\ phase' = "generated"
  /\ UNCHANGED << unit, platform, macros, condStack, branchLog, defLog, controls,
                  registered, created >>

\* ------------------------------------------------------- the generated file

\* Control keywords a control line of the generated file may start with.
ControlKeywords == {"AUTOCHECKBOX", "CHECKBOX"}

\* The style-bit names the units remap.
StyleBits == {"CBS_HASSTRINGS", "WS_EX_LEFT", "SS_WORDELLIPSIS"}

Styles == 0..MaxStyle

\* The value of an operand: an integer constant, or none (an empty operand, or
\* a name left unexpanded).
IntValue(n) == [ok |-> TRUE, v |-> n]
NoValue == [ok |-> FALSE, v |-> 0]

RECURSIVE Rescan(_, _, _)
Rescan(m, tok, seen) ==
  IF IsDefined(m, tok) /\ tok \notin seen
  THEN Rescan(m, m[tok], seen \cup {tok})
  ELSE tok

ExpandToken(m, tok) == Rescan(m, tok, {})

\* The value of a replaced operand.
TokenValue(tok) == IF tok = "0" THEN IntValue(0) ELSE NoValue

RECURSIVE BitOr(_, _)
BitOr(a, b) ==
  IF a = 0 THEN b
  ELSE IF b = 0 THEN a
  ELSE (IF a % 2 = 1 \/ b % 2 = 1 THEN 1 ELSE 0) + 2 * BitOr(a \div 2, b \div 2)

\* The value of the expression  style | BIT  after macro replacement of BIT.
StyleOr(m, style, bit) ==
  LET v == TokenValue(ExpandToken(m, bit))
  IN IF v.ok THEN IntValue(BitOr(style, v.v)) ELSE NoValue

\* One control line  KEYWORD ..., style | BIT  of the generated file.
ProcessControl ==
  /\ phase = "generated" /\ Len(controls) < MaxControls
  /\ \E kw \in ControlKeywords, style \in Styles, bit \in StyleBits :
       controls' = Append(controls,
                     [keyword |-> kw, class |-> ExpandToken(macros, kw),
                      style |-> style, bit |-> bit,
                      value |-> StyleOr(macros, style, bit)])
  /\ UNCHANGED << unit, platform, pc, macros, condStack, branchLog, defLog,
                  includes, phase, registered, created >>

\* End of the generated file: back to the including unit.
EndOfGenerated ==
  /\ phase = "generated"
  /\ phase' = "preprocess"
  /\ UNCHANGED << unit, platform, pc, macros, condStack, branchLog, defLog,
                  includes, controls, registered, created >>

CompileFails == \E i \in 1..Len(controls) : ~controls[i].value.ok

\* End of the translation unit.
EndOfUnit ==
  /\ phase = "preprocess" /\ pc > Len(Directives(unit)) /\ condStack = << >>
  /\ phase' = IF CompileFails THEN "compile_error" ELSE "load"
  /\ UNCHANGED << unit, platform, pc, macros, condStack, branchLog, defLog,
                  includes, controls, registered, created >>

\* ------------------------------------------------------- load and run time

\* Mutant of RegisterTemplate: a template may register itself again, also at
\* run time.
RegisterTemplateAgain(t) ==
  /\ phase \in {"load", "run"} /\ registered[t] < NumTemplates + 1
  /\ registered' = [registered EXCEPT ![t] = @ + 1]
  /\ UNCHANGED << unit, platform, pc, macros, condStack, branchLog, defLog,
                  includes, controls, phase, created >>

\* Load time: a template of the generated file registers itself.
RegisterTemplate(t) ==
  /\ phase = "load" /\ registered[t] = 0
  /\ registered' = [registered EXCEPT ![t] = @ + 1]
  /\ UNCHANGED << unit, platform, pc, macros, condStack, branchLog, defLog,
                  includes, controls, phase, created >>

\* Loading is over once every template is registered.
FinishLoad ==
  /\ phase = "load" /\ \A t \in Templates : registered[t] > 0
  /\ phase' = "run"
  /\ UNCHANGED << unit, platform, pc, macros, condStack, branchLog, defLog,
                  includes, controls, registered, created >>

\* Run time: a dialog is created from a registered template.
CreateDialog(t) ==
  /\ phase = "run" /\ registered[t] > 0 /\ t \notin created
  /\ created' = created \cup {t}
  /\ UNCHANGED << unit, platform, pc, macros, condStack, branchLog, defLog,
                  includes, controls, phase, registered >>

\* Run time: a dialog is destroyed; its template stays registered.
DestroyDialog(t) ==
  /\ phase = "run" /\ t \in created
  /\ created' = created \ {t}
  /\ UNCHANGED << unit, platform, pc, macros, condStack, branchLog, defLog,
                  includes, controls, phase, registered >>

Next ==
  \/ Define
  \/ Skip
  \/ Ifdef
  \/ ElseBranch
  \/ Endif
  \/ IncludeHeader
  \/ IncludeGenerated
  \/ ProcessControl
  \/ EndOfGenerated
  \/ EndOfUnit
  \/ \E t \in Templates : RegisterTemplate(t)
  \/ FinishLoad
  \/ \E t \in Templates : CreateDialog(t)
  \/ \E t \in Templates : DestroyDialog(t)

Spec == Init /\ [][Next]_vars

\* ------------------------------------------------------- properties

\* Positions in the include log.
IncludesOf(files) == {i \in 1..Len(includes) : includes[i].file \in files}
GeneratedIncludes == IncludesOf(GeneratedFiles)

\* How often the unit's own directives have defined a name so far.
DefCount(name) == Cardinality({j \in 1..Len(defLog) : defLog[j].name = name})

\* The macro names the unit's #define directives mention.
UnitMacroNames(u) ==
  {Directives(u)[i].name : i \in {k \in 1..Len(Directives(u)) : Directives(u)[k].kind = "define"}}

\* The unit has been preprocessed to its end.
UnitDone == phase \in {"compile_error", "load", "run"}

\* C1: in both units the generated .rc_mac_dlg file is included by the last
\* directive; every macro the unit defines is defined at that point, every
\* #define performed stands on an earlier line, and the macro table never
\* differs afterwards from the one in effect at the inclusion.
C1_GeneratedIncludedLast ==
  /\ \A i \in GeneratedIncludes :
       /\ includes[i].index = Len(Directives(unit))
       /\ \A n \in UnitMacroNames(unit) : IsDefined(includes[i].at, n)
       /\ \A j \in 1..Len(defLog) : defLog[j].line < includes[i].line
       /\ macros = includes[i].at
  /\ UnitDone => Cardinality(GeneratedIncludes) = 1

C1_Witness ==
  /\ unit = MainUnit /\ phase = "load"
  /\ GeneratedIncludes # {}
  /\ Len(defLog) = Cardinality(UnitMacroNames(MainUnit))

\* C2 as stated: in every unit, where the generated file is included,
\* AUTOCHECKBOX is defined as CHECKBOX, and an AUTOCHECKBOX control of the
\* generated file is processed as a CHECKBOX control.
C2_AutoCheckboxRenamedEverywhere ==
  \A i \in GeneratedIncludes :
    /\ IsDefined(includes[i].at, "AUTOCHECKBOX")
    /\ includes[i].at["AUTOCHECKBOX"] = "CHECKBOX"
    /\ \A k \in 1..Len(controls) :
         controls[k].keyword = "AUTOCHECKBOX" => controls[k].class = "CHECKBOX"

\* C2 amended: this holds of src/infrastructure/common/dialogs.cpp; the
\* directives of main/src/infrastructure/ui/dialogs.cpp define no AUTOCHECKBOX,
\* and leave an AUTOCHECKBOX keyword of the generated file unreplaced.
C2_AutoCheckboxRenamedInCommon ==
  \A i \in GeneratedIncludes :
    /\ unit = CommonUnit =>
         /\ IsDefined(includes[i].at, "AUTOCHECKBOX")
         /\ includes[i].at["AUTOCHECKBOX"] = "CHECKBOX"
         /\ \A k \in 1..Len(controls) :
              controls[k].keyword = "AUTOCHECKBOX" => controls[k].class = "CHECKBOX"
    /\ unit = MainUnit =>
         /\ ~IsDefined(includes[i].at, "AUTOCHECKBOX")
         /\ \A k \in 1..Len(controls) : controls[k].class = controls[k].keyword

C2_Witness ==
  /\ unit = CommonUnit
  /\ \E k \in 1..Len(controls) :
       controls[k].keyword = "AUTOCHECKBOX" /\ controls[k].class = "CHECKBOX"

\* C3: every template is registered exactly once, at load time: none before
\* the unit is loaded, all of them before any dialog is created, and at run
\* time the registrations neither grow nor shrink.
C3_RegisteredOnceAtLoad ==
  /\ \A t \in Templates : registered[t] <= 1
  /\ phase \notin {"load", "run"} => \A t \in Templates : registered[t] = 0
  /\ phase = "run" => \A t \in Templates : registered[t] = 1
  /\ created # {} => phase = "run"

C3_Witness == phase = "run" /\ created = Templates

MainEndifIndex == Len(MainPrologue) + Len(MainScaleBlock)

\* C5: in main's dialogs.cpp, once the __APPLE__ conditional is closed, exactly
\* one of its branches has been taken and both scale macros have been defined
\* exactly once: 1.6 and 0.95 where __APPLE__ is defined, 1.9 and 0.92
\* elsewhere.
C5_ScaleFactorsPerPlatform ==
  (unit = MainUnit /\ pc > MainEndifIndex) =>
    /\ Len(branchLog) = 1
    /\ branchLog[1] = (IF IsDefined(macros, "__APPLE__") THEN 13 ELSE 16)
    /\ DefCount("SWELL_DLG_SCALE_AUTOGEN") = 1
    /\ DefCount("SWELL_DLG_SCALE_AUTOGEN_YADJ") = 1
    /\ IsDefined(macros, "SWELL_DLG_SCALE_AUTOGEN")
    /\ IsDefined(macros, "SWELL_DLG_SCALE_AUTOGEN_YADJ")
    /\ macros["SWELL_DLG_SCALE_AUTOGEN"] =
         (IF IsDefined(macros, "__APPLE__") THEN "1.6" ELSE "1.9")
    /\ macros["SWELL_DLG_SCALE_AUTOGEN_YADJ"] =
         (IF IsDefined(macros, "__APPLE__") THEN "0.95" ELSE "0.92")

C5_Witness ==
  /\ unit = MainUnit /\ platform = "macos" /\ pc > MainEndifIndex
  /\ condStack = << >>
  /\ macros["SWELL_DLG_SCALE_AUTOGEN"] = "1.6"

\* C6: in both units SWELL_PROVIDED_BY_APP is defined when swell.h, when
\* swell-dlggen.h and when the generated file is included, the unit includes
\* all three, and the macro is defined ever after.
C6_SwellProvidedByApp ==
  /\ \A i \in IncludesOf({SwellH, SwellDlgGenH} \cup GeneratedFiles) :
       IsDefined(includes[i].at, "SWELL_PROVIDED_BY_APP")
  /\ Len(includes) > 0 => IsDefined(macros, "SWELL_PROVIDED_BY_APP")
  /\ UnitDone =>
       /\ IncludesOf({SwellH}) # {}
       /\ IncludesOf({SwellDlgGenH}) # {}
       /\ GeneratedIncludes # {}

C6_Witness ==
  /\ unit = CommonUnit /\ UnitDone
  /\ IncludesOf({SwellH}) # {} /\ GeneratedIncludes # {}

\* C7 as stated: in every unit SWELL_DLG_SCALE_AUTOGEN is defined when
\* swell-dlggen.h is included.
C7_ScaleDefinedBeforeDlgGen ==
  \A i \in IncludesOf({SwellDlgGenH}) :
    IsDefined(includes[i].at, "SWELL_DLG_SCALE_AUTOGEN")

\* C7 amended: in every unit SWELL_DLG_SCALE_AUTOGEN is defined when the
\* generated file is included; main's dialogs.cpp defines it before
\* swell-dlggen.h is included, common's dialogs.cpp only after it.
C7_ScaleDefinedBeforeGenerated ==
  /\ \A i \in GeneratedIncludes :
       IsDefined(includes[i].at, "SWELL_DLG_SCALE_AUTOGEN")
  /\ \A i \in IncludesOf({SwellDlgGenH}) :
       IsDefined(includes[i].at, "SWELL_DLG_SCALE_AUTOGEN") <=> unit = MainUnit
  /\ UnitDone => IncludesOf({SwellDlgGenH}) # {} /\ GeneratedIncludes # {}

C7_Witness ==
  /\ unit = CommonUnit /\ GeneratedIncludes # {}
  /\ \E i \in IncludesOf({SwellDlgGenH}) :
       ~IsDefined(includes[i].at, "SWELL_DLG_SCALE_AUTOGEN")

\* C8: on every platform and in both units, no name is defined twice by the
\* unit's #define directives, and a name once defined stays defined with the
\* body it was given.
C8_NoRedefinition ==
  \A j \in 1..Len(defLog) :
    /\ DefCount(defLog[j].name) = 1
    /\ IsDefined(macros, defLog[j].name)
    /\ macros[defLog[j].name] = defLog[j].body

C8_Witness ==
  /\ unit = MainUnit /\ platform = "macos" /\ UnitDone
  /\ DefCount("SWELL_DLG_SCALE_AUTOGEN") = 1
  /\ Len(defLog) = Cardinality(UnitMacroNames(MainUnit))

====
